---- MODULE Spec2Model ----
(***************************************************************************)
(* Model of the bencoder codec (src/src/encode.ts, src/src/decode.ts,      *)
(* src/src/tokens.ts).                                                      *)
(*                                                                         *)
(* A JavaScript string is a sequence of UTF-16 code units (here: code      *)
(* points of the Basic Multilingual Plane), a Buffer is a sequence of      *)
(* bytes 0..255 indexed from 0.  Buffer.from(text, 'utf-8') and            *)
(* buff.toString('utf-8', start, end) are modelled by what they do to the  *)
(* bytes.  A Try is a record: Success(v), Failure(e), or Diverge when the  *)
(* call never returns.                                                     *)
(***************************************************************************)
EXTENDS Integers, Sequences, FiniteSets, TLC

VARIABLES obj, buff, offset, result, pc

vars == <<obj, buff, offset, result, pc>>

-----------------------------------------------------------------------------
(* Token vocabulary: src/src/tokens.ts.  Each token is one ASCII character, *)
(* so its code point is also the byte that X_buff() returns.               *)

delimiter == 58

dict_start == 100

list_start == 108

int_start == 105

type_end == 101

string_start == 48..57

-----------------------------------------------------------------------------
(* Bounds of the checked universe.                                         *)

MaxInt == 101

MaxStrLen == 2

MaxLongLen == 11

MaxNodes == 3

MaxBufLen == 4

MaxOffset == 2

MaxPrefixLen == 3

MaxKeyLen == 7

-----------------------------------------------------------------------------
(* The Try type of javascriptutilities, as the codec uses it.              *)

Success(v) == [k |-> "success", v |-> v]

Failure(e) == [k |-> "failure", e |-> e]

Diverge == [k |-> "diverge"]

isSuccess(t) == t.k = "success"

isFailure(t) == t.k = "failure"

-----------------------------------------------------------------------------
(* JavaScript numbers that may be NaN (results of Number.parseInt and the  *)
(* offsets computed from them).                                            *)

Num(n) == [nan |-> FALSE, n |-> n]

NaN == [nan |-> TRUE, n |-> 0]

Plus(a, b) == IF a.nan \/ b.nan THEN NaN ELSE Num(a.n + b.n)

-----------------------------------------------------------------------------
(* Strings and buffers.                                                    *)

RECURSIVE Concat(_)
Concat(buffers) ==
  IF buffers = <<>> THEN <<>> ELSE Head(buffers) \o Concat(Tail(buffers))

(* UTF-8 bytes of one code point below 65536. *)
utf8Bytes(c) ==
  IF c < 128 THEN <<c>>
  ELSE IF c < 2048 THEN <<192 + (c \div 64), 128 + (c % 64)>>
  ELSE <<224 + (c \div 4096), 128 + ((c \div 64) % 64), 128 + (c % 64)>>

(* Buffer.from(text, 'utf-8') *)
RECURSIVE bufferFrom(_)
bufferFrom(text) ==
  IF text = <<>> THEN <<>> ELSE utf8Bytes(Head(text)) \o bufferFrom(Tail(text))

isContinuation(b) == b >= 128 /\ b < 192

ReplacementChar == 65533

(* UTF-8 decoding of a byte sequence; an ill-formed or truncated sequence *)
(* gives U+FFFD.                                                           *)
RECURSIVE utf8Slice(_)
utf8Slice(bytes) ==
  IF bytes = <<>> THEN <<>>
  ELSE LET b == Head(bytes)
           n == Len(bytes)
       IN IF b < 128 THEN <<b>> \o utf8Slice(Tail(bytes))
          ELSE IF b >= 194 /\ b < 224 THEN
            IF n >= 2 /\ isContinuation(bytes[2])
            THEN <<(b - 192) * 64 + (bytes[2] - 128)>> \o utf8Slice(SubSeq(bytes, 3, n))
            ELSE <<ReplacementChar>> \o utf8Slice(Tail(bytes))
          ELSE IF b >= 224 /\ b < 240 THEN
            IF n >= 2 /\ isContinuation(bytes[2]) /\ (b > 224 \/ bytes[2] >= 160)
                      /\ (b # 237 \/ bytes[2] < 160)
            THEN IF n >= 3 /\ isContinuation(bytes[3])
                 THEN <<(b - 224) * 4096 + (bytes[2] - 128) * 64 + (bytes[3] - 128)>>
                        \o utf8Slice(SubSeq(bytes, 4, n))
                 ELSE <<ReplacementChar>> \o utf8Slice(SubSeq(bytes, 3, n))
            ELSE <<ReplacementChar>> \o utf8Slice(Tail(bytes))
          ELSE <<ReplacementChar>> \o utf8Slice(Tail(bytes))

(* buff.toString('utf-8', start, end): start and end are clamped to the    *)
(* buffer, and an empty or inverted range (a NaN end included) gives ''.   *)
toString(b, start, end) ==
  LET len == Len(b)
      s == IF start.nan \/ start.n <= 0 THEN 0 ELSE start.n
      e == IF end.nan THEN 0 ELSE IF end.n > len THEN len ELSE end.n
  IN IF s >= len \/ e <= s THEN <<>> ELSE utf8Slice(SubSeq(b, s + 1, e))

(* buff[i]: defined only for an integer index inside the buffer. *)
hasByte(b, i) == ~i.nan /\ i.n >= 0 /\ i.n < Len(b)

byteAt(b, i) == b[i.n + 1]

(* '' + v for a non-negative integer v below 10^21: its decimal digits. *)
RECURSIVE numberToString(_)
numberToString(v) ==
  IF v < 10 THEN <<48 + v>> ELSE numberToString(v \div 10) \o <<48 + (v % 10)>>

-----------------------------------------------------------------------------
(* Number.parseInt(string) with no radix: leading white space is skipped,  *)
(* then an optional sign, then an optional 0x/0X prefix that selects radix *)
(* 16, then the longest prefix of digits of the radix.  No digit: NaN.     *)
(* Everything after the digits is ignored.  (-0 is the integer 0 here.)    *)

isWhiteSpace(c) == c \in {9, 10, 11, 12, 13, 32, 160}

RECURSIVE trimStart(_)
trimStart(s) ==
  IF s # <<>> /\ isWhiteSpace(Head(s)) THEN trimStart(Tail(s)) ELSE s

digitValue(c) ==
  IF c >= 48 /\ c <= 57 THEN c - 48
  ELSE IF c >= 97 /\ c <= 122 THEN c - 87
  ELSE IF c >= 65 /\ c <= 90 THEN c - 55
  ELSE 36

RECURSIVE parseDigits(_, _, _)
parseDigits(s, radix, acc) ==
  IF s # <<>> /\ digitValue(Head(s)) < radix
  THEN parseDigits(Tail(s), radix, Num((IF acc.nan THEN 0 ELSE acc.n) * radix + digitValue(Head(s))))
  ELSE acc

parseInt(string) ==
  LET t == trimStart(string)
      signed == t # <<>> /\ Head(t) \in {43, 45}
      negative == t # <<>> /\ Head(t) = 45
      u == IF signed THEN Tail(t) ELSE t
      hex == Len(u) >= 2 /\ u[1] = 48 /\ u[2] \in {88, 120}
      digits == IF hex THEN SubSeq(u, 3, Len(u)) ELSE u
      m == parseDigits(digits, IF hex THEN 16 ELSE 10, NaN)
  IN IF m.nan THEN NaN ELSE IF negative THEN Num(0 - m.n) ELSE m

isNaN(v) == v.nan

-----------------------------------------------------------------------------
(* Bencodable values.  An input is a boolean, a number, a string, an Array *)
(* or a Map (a key-value object is turned into a Map by Objects.toMap); a  *)
(* Map keeps its entries in insertion order.  A number is an integer n,    *)
(* Int_(n), or the non-integral number n + q/4 with 0 < q < 4, Real(n, q). *)
(* The decoder returns integers, strings, Arrays and key-value objects.    *)

Bool(b) == [t |-> "bool", b |-> b]

Int_(n) == [t |-> "int", n |-> n]

Real(n, q) == [t |-> "real", n |-> n, q |-> q]

Str(s) == [t |-> "str", s |-> s]

List(l) == [t |-> "list", l |-> l]

Map(m) == [t |-> "map", m |-> m]

Dict(d) == [t |-> "dict", d |-> d]

isBencodablePrimitive(o) == o.t \in {"bool", "int", "real", "str"}

-----------------------------------------------------------------------------
(* Encoder: src/src/encode.ts                                              *)

(* Number.isInteger(v) *)
isInteger(number) == number.t = "int"

encodeIntAnyNumber(number) ==
  IF ~(number.n >= 0) THEN Failure([v |-> number, reason |-> "is negative"])
  ELSE Success(bufferFrom(<<int_start>> \o numberToString(number.n) \o <<type_end>>))

(* The two filters, in the order of the code; the message of a failure *)
(* names the number.  n + q/4 >= 0 exactly when n >= 0.                *)
encodeInt(number) ==
  IF ~(number.n >= 0) THEN Failure([v |-> number, reason |-> "is negative"])
  ELSE IF ~isInteger(number) THEN Failure([v |-> number, reason |-> "is not an integer"])
  ELSE Success(bufferFrom(<<int_start>> \o numberToString(number.n) \o <<type_end>>))

encodeBooleanFlipped(boolean) == encodeInt(Int_(IF boolean THEN 0 ELSE 1))

encodeBoolean(boolean) == encodeInt(Int_(IF boolean THEN 1 ELSE 0))

encodeString(text) == bufferFrom(numberToString(Len(text)) \o <<delimiter>> \o text)

encodePrimitive(primitive) ==
  IF primitive.t = "str" THEN Success(encodeString(primitive.s))
  ELSE IF primitive.t \in {"int", "real"} THEN encodeInt(primitive)
  ELSE encodeBoolean(primitive.b)

zipWithLastFailure(v1, v2) ==
  IF ~isSuccess(v2) THEN v2
  ELSE IF ~isSuccess(v1) THEN v1
  ELSE Success(Append(v1.v, v2.v))

(* v1.zipWith(v2, (a, b) => a.concat([b])): the first failure wins. *)
zipWith(v1, v2) ==
  IF ~isSuccess(v1) THEN v1
  ELSE IF ~isSuccess(v2) THEN v2
  ELSE Success(Append(v1.v, v2.v))

RECURSIVE reduceZip(_, _)
reduceZip(acc, tries) ==
  IF tries = <<>> THEN acc ELSE reduceZip(zipWith(acc, Head(tries)), Tail(tries))

mapKeys(map) == [i \in 1..Len(map) |-> map[i][1]]

(* map.get(key): the value of the entry that holds the key. *)
mapGet(map, key) ==
  LET i == CHOOSE j \in 1..Len(map) : map[j][1] = key IN map[i][2]

(* s1 < s2 in the order of Array.prototype.sort(): by code unit, a proper *)
(* prefix first.                                                          *)
RECURSIVE stringLess(_, _)
stringLess(s1, s2) ==
  IF s2 = <<>> THEN FALSE
  ELSE IF s1 = <<>> THEN TRUE
  ELSE IF Head(s1) # Head(s2) THEN Head(s1) < Head(s2)
  ELSE stringLess(Tail(s1), Tail(s2))

RECURSIVE insertSorted(_, _)
insertSorted(key, sorted) ==
  IF sorted = <<>> THEN <<key>>
  ELSE IF stringLess(Head(sorted), key)
       THEN <<Head(sorted)>> \o insertSorted(key, Tail(sorted))
       ELSE <<key>> \o sorted

(* Array.from(map.keys()).sort() *)
RECURSIVE sort(_)
sort(keys) ==
  IF keys = <<>> THEN <<>> ELSE insertSorted(Head(keys), sort(Tail(keys)))

RECURSIVE encode(_)
RECURSIVE encodeArray(_)
RECURSIVE encodeMap(_)

encodeArray(array) ==
  LET tries == [i \in 1..Len(array) |-> encode(array[i])]
      all == reduceZip(Success(<<>>), tries)
  IN IF isSuccess(all)
     THEN Success(<<bufferFrom(<<list_start>>)>> \o all.v \o <<bufferFrom(<<type_end>>)>>)
     ELSE all

encodeMapUnsorted(map) ==
  LET keys == mapKeys(map)
      buffers == [i \in 1..(2 * Len(keys)) |->
                    IF i % 2 = 1 THEN Success(encodeString(keys[(i + 1) \div 2]))
                    ELSE encode(mapGet(map, keys[i \div 2]))]
      all == reduceZip(Success(<<>>), buffers)
  IN IF isSuccess(all)
     THEN Success(<<bufferFrom(<<dict_start>>)>> \o all.v \o <<bufferFrom(<<type_end>>)>>)
     ELSE all

(* Every key of map.keys() has a value, so Try.unwrap(map.get(key)) is a *)
(* success.                                                              *)
encodeMap(map) ==
  LET keys == sort(mapKeys(map))
      buffers == [i \in 1..(2 * Len(keys)) |->
                    IF i % 2 = 1 THEN Success(encodeString(keys[(i + 1) \div 2]))
                    ELSE encode(mapGet(map, keys[i \div 2]))]
      all == reduceZip(Success(<<>>), buffers)
  IN IF isSuccess(all)
     THEN Success(<<bufferFrom(<<dict_start>>)>> \o all.v \o <<bufferFrom(<<type_end>>)>>)
     ELSE all

(* Objects.toMap(obj): the entries of a key-value object, as a Map. *)
RECURSIVE toMap(_)
toMap(d) ==
  IF DOMAIN d = {} THEN <<>>
  ELSE LET key == CHOOSE x \in DOMAIN d : TRUE
       IN <<<<key, d[key]>>>> \o toMap([x \in DOMAIN d \ {key} |-> d[x]])

encodeKVObject(o) == encodeMap(toMap(o))

encode(o) ==
  LET buffers ==
        IF isBencodablePrimitive(o)
        THEN LET p == encodePrimitive(o) IN IF isSuccess(p) THEN Success(<<p.v>>) ELSE p
        ELSE IF o.t = "list" THEN encodeArray(o.l)
        ELSE IF o.t = "map" THEN encodeMap(o.m)
        ELSE encodeKVObject(o.d)
  IN IF isSuccess(buffers) THEN Success(Concat(buffers.v)) ELSE buffers

-----------------------------------------------------------------------------
(* Decoder: src/src/decode.ts.  A decode function returns a Try of the     *)
(* pair <<value, next offset>>.  `calls` is the set of decodeList and      *)
(* decodeDict calls that are on the call stack: a call that is entered     *)
(* again while it is active recurses until the stack overflows, and the    *)
(* RangeError is caught as a failure.  A loop that comes back to an offset *)
(* it has already started an iteration at never ends.                      *)

RECURSIVE scanDelimiter(_, _)

RECURSIVE scanDelimiterNoUnwrap(_, _)
scanDelimiterNoUnwrap(b, nOffset) ==
  IF hasByte(b, nOffset) /\ byteAt(b, nOffset) = delimiter THEN Success(nOffset)
  ELSE IF ~hasByte(b, nOffset) THEN Diverge
  ELSE scanDelimiterNoUnwrap(b, Plus(nOffset, Num(1)))

scanDelimiter(b, nOffset) ==
  IF hasByte(b, nOffset) /\ byteAt(b, nOffset) = delimiter THEN Success(nOffset)
  ELSE IF ~hasByte(b, nOffset) THEN Failure("No value found")
  ELSE scanDelimiter(b, Plus(nOffset, Num(1)))

findNextDelimiter(b, off) == scanDelimiter(b, off)

(* .map(v => [Number.parseInt(buff.toString('utf-8', offset, v)), v]) *)
lengthAndOffset(b, off, found) ==
  IF isSuccess(found)
  THEN Success(<<parseInt(toString(b, off, found.v)), found.v>>)
  ELSE found

decodeStringLength(b, off) == lengthAndOffset(b, off, findNextDelimiter(b, off))

decodeStringContent(b, off, length) ==
  IF ~(hasByte(b, off) /\ byteAt(b, off) = delimiter) THEN Failure("Incorrect delimiter")
  ELSE LET sOffset == Plus(off, Num(1))
           eOffset == Plus(sOffset, length)
           portion == toString(b, sOffset, eOffset)
       IN Success(<<Str(portion), eOffset>>)

(* .flatMap(v => decodeStringContent(buff, v[1], v[0])) *)
contentAfter(b, v) ==
  IF isSuccess(v) THEN decodeStringContent(b, v.v[2], v.v[1]) ELSE v

decodeString(b, off) == contentAfter(b, decodeStringLength(b, off))

(* The scan of decodeInteger: it tests buff[sOffset], not buff[cOffset],   *)
(* so once cOffset is past the end of a buffer that has a byte at sOffset  *)
(* the loop can neither exit nor throw.                                    *)
RECURSIVE scanTypeEnd(_, _, _)
scanTypeEnd(b, sOffset, cOffset) ==
  IF hasByte(b, cOffset) /\ byteAt(b, cOffset) = type_end THEN Success(cOffset)
  ELSE IF ~hasByte(b, sOffset) THEN Failure("No value found")
  ELSE IF ~hasByte(b, cOffset) THEN Diverge
  ELSE scanTypeEnd(b, sOffset, Plus(cOffset, Num(1)))

integerResultAtTypeEnd(integer, cOffset) ==
  IF isNaN(integer) THEN Failure("Not an integer")
  ELSE IF integer.n < 0 THEN Failure("is negative")
  ELSE Success(<<Int_(integer.n), cOffset>>)

(* The filters on the parsed integer, then the pair that is returned. *)
integerResult(integer, cOffset) ==
  IF isNaN(integer) THEN Failure("Not an integer")
  ELSE IF integer.n < 0 THEN Failure("is negative")
  ELSE Success(<<Int_(integer.n), Plus(cOffset, Num(1))>>)

(* The slice between sOffset and the type-end that the scan stopped at. *)
integerBetween(b, sOffset, scan) ==
  IF isSuccess(scan)
  THEN integerResult(parseInt(toString(b, sOffset, scan.v)), scan.v)
  ELSE scan

decodeIntegerAnyLeadByte(b, off) ==
  integerBetween(b, Plus(off, Num(1)), scanTypeEnd(b, Plus(off, Num(1)), Plus(off, Num(1))))

decodeInteger(b, off) ==
  IF ~(hasByte(b, off) /\ byteAt(b, off) = int_start) THEN Failure("Incorrect token")
  ELSE integerBetween(b, Plus(off, Num(1)), scanTypeEnd(b, Plus(off, Num(1)), Plus(off, Num(1))))

(* Collections.first(array) *)
first(array) == IF array = <<>> THEN Failure("No element") ELSE Success(array[1])

(* dict[key] = value *)
put(dict, key, value) ==
  [x \in DOMAIN dict \cup {key} |-> IF x = key THEN value ELSE dict[x]]

(* The three while conditions that decodeAny is called with. *)
whileFn(which, b, lOff, cOff) ==
  IF which = "list" THEN ~(hasByte(b, cOff) /\ byteAt(b, cOff) = type_end)
  ELSE IF which = "dict" THEN ~lOff.nan /\ ~cOff.nan /\ lOff.n = cOff.n
  ELSE hasByte(b, cOff)

(* .map(v => [v[0], v[1] + 1]) *)
listAndOffset(v) ==
  IF isSuccess(v) THEN Success(<<List(v.v[1]), Plus(v.v[2], Num(1))>>) ELSE v

RECURSIVE decodeList(_, _, _)
RECURSIVE decodeDict(_, _, _)
RECURSIVE dictLoop(_, _, _, _, _)
RECURSIVE dictValue(_, _, _, _, _)
RECURSIVE dictEntry(_, _, _, _, _, _)
RECURSIVE dictAssign(_, _, _, _, _, _, _)
RECURSIVE decodeAny(_, _, _, _)
RECURSIVE anyLoop(_, _, _, _, _, _, _)
RECURSIVE anyPush(_, _, _, _, _, _, _)

decodeList(b, off, calls) ==
  IF ~(hasByte(b, off) /\ byteAt(b, off) = list_start) THEN Failure("Invalid list token")
  ELSE IF <<"list", off.n>> \in calls THEN Failure("Maximum call stack size exceeded")
  ELSE listAndOffset(decodeAny(b, Plus(off, Num(1)), "list", calls \cup {<<"list", off.n>>}))

(* One iteration of the loop of decodeDict: the key, then the value, then *)
(* the first of the values decodeAny returns, then the assignment.        *)
dictLoop(b, cOffset, dict, seen, calls) ==
  IF hasByte(b, cOffset) /\ byteAt(b, cOffset) = type_end
  THEN Success(<<Dict(dict), Plus(cOffset, Num(1))>>)
  ELSE IF cOffset \in seen THEN Diverge
  ELSE dictValue(b, dict, seen \cup {cOffset}, calls, decodeString(b, cOffset))

dictValue(b, dict, seen, calls, decodedKey) ==
  IF ~isSuccess(decodedKey) THEN decodedKey
  ELSE dictEntry(b, dict, seen, calls, decodedKey.v,
                 decodeAny(b, decodedKey.v[2], "dict", calls))

dictEntry(b, dict, seen, calls, decodedKey, decodedValue) ==
  IF ~isSuccess(decodedValue) THEN decodedValue
  ELSE dictAssign(b, dict, seen, calls, decodedKey, decodedValue.v, first(decodedValue.v[1]))

dictAssignSortedOnly(b, dict, seen, calls, decodedKey, decodedValue, value) ==
  IF ~isSuccess(value) THEN value
  ELSE IF \E key \in DOMAIN dict : ~stringLess(key, decodedKey[1].s)
  THEN Failure("Keys are not sorted")
  ELSE dictLoop(b, decodedValue[2], put(dict, decodedKey[1].s, value.v), seen, calls)

dictAssign(b, dict, seen, calls, decodedKey, decodedValue, value) ==
  IF ~isSuccess(value) THEN value
  ELSE dictLoop(b, decodedValue[2], put(dict, decodedKey[1].s, value.v), seen, calls)

decodeDict(b, off, calls) ==
  IF ~(hasByte(b, off) /\ byteAt(b, off) = dict_start) THEN Failure("Invalid dict token")
  ELSE IF <<"dict", off.n>> \in calls THEN Failure("Maximum call stack size exceeded")
  ELSE dictLoop(b, Plus(off, Num(1)), <<>>, {}, calls \cup {<<"dict", off.n>>})

(* One iteration of the loop of decodeAny. *)
anyLoop(b, which, oOffset, nOffset, bencodables, seen, calls) ==
  IF ~whileFn(which, b, oOffset, nOffset) THEN Success(<<bencodables, nOffset>>)
  ELSE IF nOffset \in seen THEN Diverge
  ELSE IF ~hasByte(b, nOffset) THEN Failure("No value found")
  ELSE IF byteAt(b, nOffset) = dict_start
  THEN anyPush(b, which, nOffset, bencodables, seen, calls, decodeDict(b, nOffset, calls))
  ELSE IF byteAt(b, nOffset) = list_start
  THEN anyPush(b, which, nOffset, bencodables, seen, calls, decodeList(b, nOffset, calls))
  ELSE IF byteAt(b, nOffset) = int_start
  THEN anyPush(b, which, nOffset, bencodables, seen, calls, decodeInteger(b, nOffset))
  ELSE IF byteAt(b, nOffset) \in string_start
  THEN anyPush(b, which, nOffset, bencodables, seen, calls, decodeString(b, nOffset))
  ELSE anyLoop(b, which, nOffset, Plus(nOffset, Num(1)), bencodables,
               seen \cup {nOffset}, calls)

(* lastDecoded = decoded[0]; nOffset = decoded[1]; bencodables.push(decoded[0]) *)
anyPush(b, which, nOffset, bencodables, seen, calls, decoded) ==
  IF ~isSuccess(decoded) THEN decoded
  ELSE anyLoop(b, which, nOffset, decoded.v[2], Append(bencodables, decoded.v[1]),
               seen \cup {nOffset}, calls)

decodeAny(b, off, which, calls) == anyLoop(b, which, off, off, <<>>, {}, calls)

decodeBuffer(b, off) == decodeAny(b, off, "buffer", {})

(* .map(v => v[0]) *)
valuesOf(v) == IF isSuccess(v) THEN Success(v.v[1]) ELSE v

(* The filter v.length >= 0 lets every buffer through. *)
decode(buffer) ==
  IF Len(buffer) >= 0 THEN valuesOf(decodeBuffer(buffer, Num(0))) ELSE Failure("is empty")

-----------------------------------------------------------------------------
(* The inputs.  Characters: ':' 'e' 'i' 'l' 'd' '1' 'a' and the two-byte   *)
(* character U+00E9.  Bytes of raw buffers: 'd' 'l' 'i' 'e' ':' '0' '1'    *)
(* '-' 'a'.                                                                *)

Chars == {58, 101, 105, 108, 100, 49, 97, 233}

Bytes == {100, 108, 105, 101, 58, 48, 49, 45, 97}

SeqsUpTo(S, n) == UNION {[1..m -> S] : m \in 0..n}

Texts ==
  SeqsUpTo(Chars, MaxStrLen) \cup {[i \in 1..n |-> c] : n \in 0..MaxLongLen, c \in Chars}

Leaves ==
  {Int_(10), Str(<<>>), Str(<<105, 58>>), Str(<<233>>), Bool(TRUE), Int_(0 - 1), Real(1, 2)}

DictKeys == {<<98>>, <<97, 98>>}

RECURSIVE Trees(_)
RECURSIVE ListBodies(_)
RECURSIVE MapBodies(_, _)

(* The Arrays and Maps of exactly n nodes (n = 1: the leaves, [] and {}). *)
Trees(n) ==
  IF n = 1 THEN Leaves \cup {List(<<>>), Map(<<>>)}
  ELSE {List(l) : l \in ListBodies(n - 1)} \cup {Map(m) : m \in MapBodies(n - 1, DictKeys)}

ListBodies(n) ==
  IF n = 0 THEN {<<>>}
  ELSE UNION {{<<v>> \o rest : v \in Trees(k), rest \in ListBodies(n - k)} : k \in 1..n}

MapBodies(n, keys) ==
  IF n = 0 THEN {<<>>}
  ELSE UNION {{<<<<key, v>>>> \o rest : v \in Trees(k), rest \in MapBodies(n - k, keys \ {key})}
                : k \in 1..n, key \in keys}

Numbers ==
  {Int_(n) : n \in (0 - MaxInt)..MaxInt}
    \cup {Real(n, q) : n \in (0 - MaxStrLen)..MaxStrLen, q \in 1..3}

Bencodables ==
  Numbers \cup {Bool(b) : b \in BOOLEAN} \cup {Str(s) : s \in Texts}
    \cup UNION {Trees(n) : n \in 1..MaxNodes}

Buffers == SeqsUpTo(Bytes, MaxBufLen)

(* Buffers that hold a dictionary whose first key declares a negative      *)
(* length, after a prefix of the bytes '0' '1' ':' 'e': <prefix>d-<n>:     *)
PrefixBytes == {48, 49, 58, 101}

NegativeKeyBuffers ==
  {prefix \o <<dict_start, 45, 48 + n, delimiter>> :
     prefix \in SeqsUpTo(PrefixBytes, MaxPrefixLen), n \in 0..MaxKeyLen}

(* The bytes of a value as an encoder of the wire format writes them that  *)
(* keeps the entries of a dictionary in insertion order: the length prefix *)
(* of a string counts the bytes of its content.                            *)
RECURSIVE Written(_)
Written(v) ==
  IF v.t = "int" THEN <<int_start>> \o numberToString(v.n) \o <<type_end>>
  ELSE IF v.t = "bool" THEN <<int_start, IF v.b THEN 49 ELSE 48, type_end>>
  ELSE IF v.t = "str"
       THEN numberToString(Len(bufferFrom(v.s))) \o <<delimiter>> \o bufferFrom(v.s)
  ELSE IF v.t = "list"
       THEN <<list_start>> \o Concat([i \in 1..Len(v.l) |-> Written(v.l[i])]) \o <<type_end>>
  ELSE <<dict_start>>
         \o Concat([i \in 1..Len(v.m) |-> Written(Str(v.m[i][1])) \o Written(v.m[i][2])])
         \o <<type_end>>

(* The values that have an encoding. *)
Writable == {v \in Bencodables : isSuccess(encode(v))}

NoValue == [t |-> "none"]

NoResult == [k |-> "none"]

-----------------------------------------------------------------------------
(* Spec: a value is encoded and the buffer is handed to one of the decode  *)
(* functions at offset 0.  SpecBuf: a decode function is called on an      *)
(* arbitrary buffer.  SpecWire: a decode function is called at offset 0 on *)
(* a buffer that another encoder wrote, and the first value that decode    *)
(* returns is encoded again.  SpecKey: a decode function is called on a    *)
(* buffer whose dictionary opens with a key of negative length.            *)

Init ==
  /\ obj \in Bencodables
  /\ buff = <<>>
  /\ offset = 0
  /\ result = NoResult
  /\ pc = "start"

InitBuf ==
  /\ obj = NoValue
  /\ buff \in Buffers
  /\ offset \in 0..MaxOffset
  /\ result = NoResult
  /\ pc = "ready"

InitWire ==
  /\ obj \in Writable
  /\ buff = Written(obj)
  /\ offset = 0
  /\ result = NoResult
  /\ pc = "ready"

(* The decode functions are called at the offset of the dictionary. *)
InitKey ==
  /\ obj = NoValue
  /\ buff \in NegativeKeyBuffers
  /\ offset = Len(buff) - 4
  /\ result = NoResult
  /\ pc = "ready"

Encode ==
  /\ pc = "start"
  /\ LET encoded == encode(obj)
     IN /\ result' = encoded
        /\ buff' = IF isSuccess(encoded) THEN encoded.v ELSE buff
        /\ pc' = IF isSuccess(encoded) THEN "ready" ELSE "encodeFailed"
  /\ UNCHANGED <<obj, offset>>

DecodeString ==
  /\ pc = "ready"
  /\ result' = decodeString(buff, Num(offset))
  /\ pc' = "decodeString"
  /\ UNCHANGED <<obj, buff, offset>>

DecodeInteger ==
  /\ pc = "ready"
  /\ result' = decodeInteger(buff, Num(offset))
  /\ pc' = "decodeInteger"
  /\ UNCHANGED <<obj, buff, offset>>

DecodeList ==
  /\ pc = "ready"
  /\ result' = decodeList(buff, Num(offset), {})
  /\ pc' = "decodeList"
  /\ UNCHANGED <<obj, buff, offset>>

DecodeDict ==
  /\ pc = "ready"
  /\ result' = decodeDict(buff, Num(offset), {})
  /\ pc' = "decodeDict"
  /\ UNCHANGED <<obj, buff, offset>>

Decode ==
  /\ pc = "ready"
  /\ result' = decode(buff)
  /\ pc' = "decode"
  /\ UNCHANGED <<obj, buff, offset>>

(* The first of the decoded values is encoded again. *)
ReEncode ==
  /\ pc = "decode"
  /\ isSuccess(result)
  /\ LET decoded == first(result.v)
     IN result' = IF isSuccess(decoded) THEN encode(decoded.v) ELSE decoded
  /\ pc' = "reEncoded"
  /\ UNCHANGED <<obj, buff, offset>>

Decoders == DecodeString \/ DecodeInteger \/ DecodeList \/ DecodeDict \/ Decode

Next == Encode \/ Decoders

NextBuf == Decoders

NextWire == Decoders \/ ReEncode

Spec == Init /\ [][Next]_vars

SpecBuf == InitBuf /\ [][NextBuf]_vars

SpecWire == InitWire /\ [][NextWire]_vars

SpecKey == InitKey /\ [][NextBuf]_vars

TypeOK == pc \in {"start", "ready", "encodeFailed", "decodeString", "decodeInteger",
                  "decodeList", "decodeDict", "decode", "reEncoded"}

-----------------------------------------------------------------------------
(* Vocabulary of the properties.                                           *)

(* The value a decoder returns for an input value: a Map read as an *)
(* unordered mapping, a boolean as the integer 1 or 0.               *)
RECURSIVE Norm(_)
Norm(v) ==
  IF v.t = "list" THEN List([i \in 1..Len(v.l) |-> Norm(v.l[i])])
  ELSE IF v.t = "map"
       THEN Dict([key \in {v.m[i][1] : i \in 1..Len(v.m)} |-> Norm(mapGet(v.m, key))])
  ELSE IF v.t = "bool" THEN Int_(IF v.b THEN 1 ELSE 0)
  ELSE v

RECURSIVE digitsOf(_)
digitsOf(n) == IF n < 10 THEN 1 ELSE 1 + digitsOf(n \div 10)

isDigit(b) == b >= 48 /\ b <= 57

RECURSIVE DecimalValue(_)
DecimalValue(digits) ==
  IF digits = <<>> THEN 0
  ELSE 10 * DecimalValue(SubSeq(digits, 1, Len(digits) - 1)) + (digits[Len(digits)] - 48)

AllDigits(bytes) == \A i \in 1..Len(bytes) : isDigit(bytes[i])

(* s1 comes strictly before s2 in lexicographic order. *)
KeyBefore(s1, s2) ==
  \E i \in 1..Len(s2) :
    /\ \A j \in 1..(i - 1) : j <= Len(s1) /\ s1[j] = s2[j]
    /\ \/ i = Len(s1) + 1
       \/ i <= Len(s1) /\ s1[i] < s2[i]

(* The entries of a Map in ascending key order. *)
Ascending(m) ==
  [i \in 1..Len(m) |->
     LET at == CHOOSE j \in 1..Len(m) :
                 Cardinality({h \in 1..Len(m) : KeyBefore(m[h][1], m[j][1])}) = i - 1
     IN m[at]]

(* The same value with every Map, at every depth, inserted in ascending *)
(* key order.                                                            *)
RECURSIVE Canonical(_)
Canonical(v) ==
  IF v.t = "list" THEN List([i \in 1..Len(v.l) |-> Canonical(v.l[i])])
  ELSE IF v.t = "map"
       THEN Map([i \in 1..Len(v.m) |->
                   <<Ascending(v.m)[i][1], Canonical(Ascending(v.m)[i][2])>>])
       ELSE v

(* The bytes that a dictionary's entries give when written in the given order. *)
RECURSIVE EntriesInOrder(_)
EntriesInOrder(m) ==
  IF m = <<>> THEN <<>>
  ELSE encodeString(m[1][1]) \o encode(m[1][2]).v \o EntriesInOrder(Tail(m))

Recognized == {dict_start, list_start, int_start} \cup string_start

(* The numbers of a value that are negative or non-integral, in the order *)
(* the encoding writes the value: the elements of a list in their order,   *)
(* the values of a dictionary in ascending key order, depth first.         *)
RECURSIVE InvalidNumbers(_)
InvalidNumbers(v) ==
  IF v.t = "list" THEN Concat([i \in 1..Len(v.l) |-> InvalidNumbers(v.l[i])])
  ELSE IF v.t = "map"
       THEN Concat([i \in 1..Len(v.m) |-> InvalidNumbers(Ascending(v.m)[i][2])])
  ELSE IF v.t = "real" \/ (v.t = "int" /\ v.n < 0) THEN <<v>>
  ELSE <<>>

(* A value tree of integers n >= 0, booleans, strings, lists and dictionaries. *)
Valid(v) == InvalidNumbers(v) = <<>>

RECURSIVE Power10(_)
Power10(k) == IF k = 0 THEN 1 ELSE 10 * Power10(k - 1)

(* The decimal digits of n >= 0, most significant first. *)
DecimalDigits(n) ==
  [i \in 1..digitsOf(n) |-> 48 + ((n \div Power10(digitsOf(n) - i)) % 10)]

(* The wire format of a valid value tree: the length of a string is its  *)
(* number of characters, its content the UTF-8 bytes of the characters. *)
RECURSIVE WireFormat(_)
WireFormat(v) ==
  IF v.t = "int" THEN <<105>> \o DecimalDigits(v.n) \o <<101>>
  ELSE IF v.t = "bool" THEN (IF v.b THEN <<105, 49, 101>> ELSE <<105, 48, 101>>)
  ELSE IF v.t = "str" THEN DecimalDigits(Len(v.s)) \o <<58>> \o bufferFrom(v.s)
  ELSE IF v.t = "list"
       THEN <<108>> \o Concat([i \in 1..Len(v.l) |-> WireFormat(v.l[i])]) \o <<101>>
  ELSE <<100>>
         \o Concat([i \in 1..Len(v.m) |->
                      WireFormat(Str(Ascending(v.m)[i][1])) \o WireFormat(Ascending(v.m)[i][2])])
         \o <<101>>

(* The failure of encodeInt for a negative or non-integral number. *)
NumberFailure(number) ==
  Failure([v |-> number,
           reason |-> IF number.n < 0 THEN "is negative" ELSE "is not an integer"])

(* The value decodeDict decodes after a key, in a call at off. *)
dictValueOnly(b, off, decodedKey) ==
  IF isSuccess(decodedKey) THEN decodeAny(b, decodedKey.v[2], "dict", {<<"dict", off>>})
  ELSE decodedKey

(* decodeList or decodeDict was called at an offset that holds its start token. *)
Opened ==
  /\ pc \in {"decodeList", "decodeDict"}
  /\ offset < Len(buff)
  /\ buff[offset + 1] = (IF pc = "decodeList" THEN list_start ELSE dict_start)

(* The decode of the child that opens at off, by its lead byte. *)
ChildDecode(b, off) ==
  IF ~hasByte(b, off) THEN Failure("No value found")
  ELSE IF byteAt(b, off) = dict_start THEN decodeDict(b, off, {})
  ELSE IF byteAt(b, off) = list_start THEN decodeList(b, off, {})
  ELSE IF byteAt(b, off) = int_start THEN decodeInteger(b, off)
  ELSE IF byteAt(b, off) \in string_start THEN decodeString(b, off)
  ELSE Success(<<>>)

(* The first iteration of the loop of decodeDict called at off: the key, *)
(* then the value that follows it.                                      *)
FirstEntry(b, off) ==
  dictValueOnly(b, off, decodeString(b, Num(off + 1)))

(* The encodings of the values [], {} and '': two bytes each. *)
TwoByteValues == {Str(<<>>), List(<<>>), Map(<<>>)}

-----------------------------------------------------------------------------
(* C1: round trip through the entry points: for every valid value v,       *)
(* encode(v) succeeds and decode(encode(v)) succeeds with v as its one     *)
(* top-level value, a dictionary compared as an unordered mapping.         *)
C1_RoundTrip ==
  /\ (pc = "encodeFailed" => ~Valid(obj))
  /\ pc = "decode" => result = Success(<<Norm(obj)>>)

(* C2: for every string s of length L, decodeString(encode(s), 0) returns  *)
(* (s, L + digitsOf(L) + 1), and L + digitsOf(L) + 1 is the length of      *)
(* encode(s).                                                              *)
C2_StringLengthLaw ==
  (pc = "decodeString" /\ obj.t = "str") =>
    /\ result = Success(<<obj, Num(Len(obj.s) + digitsOf(Len(obj.s)) + 1)>>)
    /\ Len(buff) = Len(obj.s) + digitsOf(Len(obj.s)) + 1

(* C3: for every non-negative integer n, decodeInteger(encode(n), 0)       *)
(* returns (n, digitsOf(n) + 2), and digitsOf(n) + 2 is the length of      *)
(* encode(n).                                                              *)
C3_IntegerFramingLaw ==
  (pc = "decodeInteger" /\ obj.t = "int") =>
    /\ result = Success(<<obj, Num(digitsOf(obj.n) + 2)>>)
    /\ Len(buff) = digitsOf(obj.n) + 2

C3_Witness ==
  pc = "decodeInteger" /\ obj = Int_(100) /\ result = Success(<<Int_(100), Num(5)>>)

(* C4: for every list x, decodeList(encode(x), 0) returns                  *)
(* (x, length(encode(x))), and for every dictionary m,                     *)
(* decodeDict(encode(m), 0) returns (m, length(encode(m))), at every       *)
(* nesting depth.                                                          *)
C4_CompoundOffsets ==
  /\ (pc = "decodeList" /\ obj.t = "list") => result = Success(<<Norm(obj), Num(Len(buff))>>)
  /\ (pc = "decodeDict" /\ obj.t = "map") => result = Success(<<Norm(obj), Num(Len(buff))>>)

(* C5: the encoding of a dictionary holds its key/value pairs in strictly  *)
(* ascending lexicographic key order whatever the insertion order, so the  *)
(* same pairs inserted in any order, at any depth, give the same bytes;    *)
(* {"cow": "moo", "age": 4} gives d3:agei4e3:cow3:mooe.                    *)
C5_CanonicalSort ==
  /\ (pc = "ready" /\ obj.t = "map") =>
       buff = <<dict_start>> \o EntriesInOrder(Ascending(obj.m)) \o <<type_end>>
  /\ pc = "ready" => encode(Canonical(obj)) = Success(buff)
  /\ encode(Map(<< <<<<99, 111, 119>>, Str(<<109, 111, 111>>)>>, <<<<97, 103, 101>>, Int_(4)>> >>))
       = Success(<<100, 51, 58, 97, 103, 101, 105, 52, 101,
                   51, 58, 99, 111, 119, 51, 58, 109, 111, 111, 101>>)

C5_Witness ==
  /\ pc = "ready"
  /\ obj.t = "map"
  /\ Len(obj.m) = 2
  /\ KeyBefore(obj.m[2][1], obj.m[1][1])
  /\ obj.m[2][2].t = "map"
  /\ buff[1] = dict_start

(* C6: whenever the byte where a value is expected (top level of decode,   *)
(* an element position of a list, the value position after a dictionary    *)
(* key) is not 'd', 'l', 'i' or a digit, the decode returns a failure: the *)
(* byte is not skipped and no value is returned.                           *)
C6_UnrecognizedLeadByte ==
  /\ (pc = "decode" /\ buff # <<>> /\ buff[1] \notin Recognized) => isFailure(result)
  /\ (pc = "decodeList" /\ offset = 0 /\ Len(buff) >= 2 /\ buff[1] = list_start
        /\ buff[2] \notin Recognized \cup {type_end}) => isFailure(result)
  /\ (pc = "decodeDict" /\ offset = 0 /\ Len(buff) >= 4 /\ buff[1] = dict_start
        /\ buff[2] = 48 /\ buff[3] = delimiter /\ buff[4] \notin Recognized)
       => isFailure(result)

(* C7: decodeString fails when the declared length (a decimal prefix       *)
(* before the delimiter) exceeds the bytes that remain after the           *)
(* delimiter: no shortened string and no nextOffset beyond the end of the  *)
(* buffer is returned.                                                     *)
C7_TruncatedString ==
  pc = "decodeString" =>
    \A d \in (offset + 1)..(Len(buff) - 1) :
      ( /\ AllDigits(SubSeq(buff, offset + 1, d))
        /\ buff[d + 1] = delimiter
        /\ DecimalValue(SubSeq(buff, offset + 1, d)) > Len(buff) - (d + 1) )
        => isFailure(result)

(* C8: the length prefix the encoder writes for a string equals the number *)
(* of bytes of content that follow the delimiter in the buffer, also for a *)
(* string with characters of more than one byte.                           *)
C8_LengthPrefixCountsBytes ==
  (pc = "ready" /\ obj.t = "str") =>
    \E d \in 1..Len(buff) :
      /\ d > 1
      /\ AllDigits(SubSeq(buff, 1, d - 1))
      /\ buff[d] = delimiter
      /\ DecimalValue(SubSeq(buff, 1, d - 1)) = Len(buff) - d

(* C9: decodeInteger fails whenever the slice between int-start and the    *)
(* first type-end is not made only of decimal digits: an empty slice, a    *)
(* non-digit after leading digits, a non-digit first.  (A slice that       *)
(* opens with a minus sign is the case of C10 and is left to it.)          *)
C9_MalformedInteger ==
  pc = "decodeInteger" =>
    \A e \in (offset + 2)..Len(buff) :
      ( /\ buff[offset + 1] = int_start
        /\ buff[e] = type_end
        /\ \A h \in (offset + 2)..(e - 1) : buff[h] # type_end
        /\ (e = offset + 2 \/ ~AllDigits(SubSeq(buff, offset + 2, e - 1)))
        /\ buff[offset + 2] # 45 )
        => isFailure(result)

(* C10: decodeInteger rejects every negative literal: for every buffer of  *)
(* the form i-<digits>e it returns a failure and never a value.            *)
C10_NegativeLiteral ==
  ( /\ pc = "decodeInteger"
    /\ offset = 0
    /\ Len(buff) >= 4
    /\ buff[1] = int_start
    /\ buff[2] = 45
    /\ AllDigits(SubSeq(buff, 3, Len(buff) - 1))
    /\ buff[Len(buff)] = type_end )
    => isFailure(result)

(* C11: decodeString fails whenever the bytes between the start offset and *)
(* the first delimiter are not a non-negative decimal integer: an empty    *)
(* prefix, a prefix with a non-digit character, a prefix with a minus sign *)
(* all give a failure, and no (string, nextOffset) pair is returned.       *)
C11_InvalidLength ==
  pc = "decodeString" =>
    \A d \in (offset + 1)..Len(buff) :
      ( /\ buff[d] = delimiter
        /\ \A h \in (offset + 1)..(d - 1) : buff[h] # delimiter
        /\ (d = offset + 1 \/ ~AllDigits(SubSeq(buff, offset + 1, d - 1))) )
        => isFailure(result)

(* C12: decodeString returns a failure whenever no delimiter ':' occurs at *)
(* or after the start offset before the end of the buffer, a start offset  *)
(* at or past the end of the buffer included: the scan stops at the end of *)
(* the buffer.                                                             *)
C12_MissingDelimiter ==
  (pc = "decodeString" /\ \A h \in (offset + 1)..Len(buff) : buff[h] # delimiter)
    => isFailure(result)

C12_Witness ==
  /\ pc = "decodeString"
  /\ buff = <<58, 49, 97, 48>>
  /\ offset = 1
  /\ result = Failure("No value found")

(* C13: top-level decode returns the first top-level value parsed from     *)
(* offset 0: for a buffer that is the concatenation of two well-formed     *)
(* values, the result of decode holds the first value alone, and the value *)
(* after it is ignored.                                                    *)
C13_FirstValueOnly ==
  pc = "decode" =>
    \A x \in TwoByteValues : \A y \in TwoByteValues :
      buff = encode(x).v \o encode(y).v => result = Success(<<Norm(x)>>)

C15_EncodeIntDomain ==
  /\ (pc # "start" /\ obj.t \in {"int", "real"}) =>
       IF obj.t = "real" \/ obj.n < 0
       THEN pc = "encodeFailed" /\ isFailure(result) /\ buff = <<>>
       ELSE pc # "encodeFailed" /\ (pc = "ready" => (result = Success(buff) /\ buff # <<>>))
  /\ obj.t \in {"int", "real"} =>
       (isSuccess(encodeInt(obj)) <=> (obj.t = "int" /\ obj.n >= 0))

C15_Witness ==
  /\ pc = "encodeFailed"
  /\ obj = Real(1, 2)
  /\ result = Failure([v |-> Real(1, 2), reason |-> "is not an integer"])

(* C16: encoding a list or a dictionary fails whenever any element or      *)
(* value, at any nesting depth, fails to encode; the failure returned is   *)
(* the one of the first failing child in output order, and no partial      *)
(* buffer is returned.                                                     *)
C16_EncoderFailurePropagation ==
  (pc # "start" /\ obj.t \in {"list", "map"}) =>
    /\ (pc = "encodeFailed") <=> ~Valid(obj)
    /\ pc = "encodeFailed" =>
         (result = NumberFailure(Head(InvalidNumbers(obj))) /\ buff = <<>>)

C16_Witness ==
  /\ pc = "encodeFailed"
  /\ obj = Map(<< <<<<98>>, Int_(0 - 1)>>, <<<<97, 98>>, Real(1, 2)>> >>)
  /\ result = Failure([v |-> Real(1, 2), reason |-> "is not an integer"])

(* C17: decodeList and decodeDict return a failure, and never a partial    *)
(* list or mapping, whenever the decode of a child (the first element, the *)
(* first key) fails or the buffer ends before the closing type-end is      *)
(* seen; a success has consumed a closing type-end.                        *)
C17_DecoderFailurePropagation ==
  /\ (Opened /\ pc = "decodeList" /\ isFailure(ChildDecode(buff, Num(offset + 1))))
       => isFailure(result)
  /\ (Opened /\ pc = "decodeDict" /\ (offset + 1 >= Len(buff) \/ buff[offset + 2] # type_end)
        /\ isFailure(decodeString(buff, Num(offset + 1))))
       => isFailure(result)
  /\ (Opened /\ \A h \in (offset + 2)..Len(buff) : buff[h] # type_end) => isFailure(result)
  /\ (pc \in {"decodeList", "decodeDict"} /\ isSuccess(result)) =>
       /\ ~result.v[2].nan
       /\ result.v[2].n >= 1
       /\ result.v[2].n <= Len(buff)
       /\ buff[result.v[2].n] = type_end

(* C18: decode then encode is the identity on canonical input: for every   *)
(* buffer b that is the canonical encoding of a value (dictionary keys     *)
(* sorted at every level), encoding the first value of decode(b) gives a   *)
(* buffer byte-identical to b; for a buffer whose dictionary keys are not  *)
(* sorted, the re-encoded buffer has the keys sorted and differs from b.   *)
C18_DecodeEncodeIdentity ==
  pc = "reEncoded" =>
    IF Canonical(obj) = obj
    THEN result = Success(buff)
    ELSE result = Success(Written(Canonical(obj))) /\ result.v # buff

(* C19: decodeDict accepts a dictionary whose keys are not in sorted       *)
(* order: for every well-formed dictionary encoding with its key/value     *)
(* pairs written in any order (keys distinct), decodeDict succeeds and     *)
(* returns the same mapping and the same nextOffset as for the pairs       *)
(* written in sorted order.                                                *)
C19_UnsortedKeysAccepted ==
  (pc = "decodeDict" /\ obj.t = "map") =>
    /\ result = Success(<<Norm(obj), Num(Len(buff))>>)
    /\ result = decodeDict(Written(Canonical(obj)), Num(0), {})

C19_Witness ==
  /\ pc = "decodeDict"
  /\ obj = Map(<< <<<<98>>, Str(<<233>>)>>, <<<<97, 98>>, List(<<>>)>> >>)
  /\ buff # Written(Canonical(obj))
  /\ result = Success(<<Norm(obj), Num(15)>>)

(* C20: decodeInteger, decodeList and decodeDict each return a failure     *)
(* when the byte at the given offset is not their own start token ('i',    *)
(* 'l', 'd'), an offset at or past the end of the buffer included; the     *)
(* failure is the one of the check of the lead byte, raised before any     *)
(* scan of the buffer.                                                     *)
C20_LeadBytePrecondition ==
  /\ (pc = "decodeInteger" /\ (offset >= Len(buff) \/ buff[offset + 1] # int_start))
       => result = Failure("Incorrect token")
  /\ (pc = "decodeList" /\ (offset >= Len(buff) \/ buff[offset + 1] # list_start))
       => result = Failure("Invalid list token")
  /\ (pc = "decodeDict" /\ (offset >= Len(buff) \/ buff[offset + 1] # dict_start))
       => result = Failure("Invalid dict token")

C20_Witness ==
  /\ pc = "decodeInteger"
  /\ buff = <<105, 97, 49, 101>>
  /\ offset = 1
  /\ result = Failure("Incorrect token")

(* C21: decodeInteger terminates on every finite buffer: when the byte at  *)
(* offset is int-start and no type-end occurs after it before the end of   *)
(* the buffer (for example i12), the scan stops at the end of the buffer   *)
(* and the call returns a failure.                                         *)
C21_IntegerScanTerminates ==
  pc = "decodeInteger" =>
    /\ result.k # "diverge"
    /\ ( /\ offset < Len(buff)
         /\ buff[offset + 1] = int_start
         /\ \A h \in (offset + 2)..Len(buff) : buff[h] # type_end )
         => isFailure(result)

(* C22: no backtracking in compound decoding: in decodeList and decodeDict *)
(* the current offset after an iteration (one element, or one key followed *)
(* by one value) is strictly greater than the offset at which the          *)
(* iteration began, and the call terminates with a value or a failure.     *)
C22_NoBacktracking ==
  /\ pc \in {"decodeList", "decodeDict"} => result.k # "diverge"
  /\ (Opened /\ pc = "decodeDict") =>
       ( (isSuccess(FirstEntry(buff, offset)) /\ FirstEntry(buff, offset).v[1] # <<>>)
           => ( /\ ~FirstEntry(buff, offset).v[2].nan
                /\ FirstEntry(buff, offset).v[2].n > offset + 1 ) )
  /\ ( /\ Opened
       /\ pc = "decodeList"
       /\ offset + 1 < Len(buff)
       /\ buff[offset + 2] \in Recognized
       /\ isSuccess(ChildDecode(buff, Num(offset + 1))) )
       => ( /\ ~ChildDecode(buff, Num(offset + 1)).v[2].nan
            /\ ChildDecode(buff, Num(offset + 1)).v[2].n > offset + 1 )

(* C23: whenever decodeString, decodeInteger, decodeList or decodeDict     *)
(* succeeds with (value, nextOffset), then                                 *)
(* offset < nextOffset <= length(buffer).                                  *)
C23_OffsetBounds ==
  (pc \in {"decodeString", "decodeInteger", "decodeList", "decodeDict"} /\ isSuccess(result))
    => ( /\ ~result.v[2].nan
         /\ offset < result.v[2].n
         /\ result.v[2].n <= Len(buff) )

(* C24: decode returns a failure (the 'Data ... is empty' error) for an    *)
(* empty, zero-length buffer; it never returns a success that holds no     *)
(* value for it.                                                           *)
C24_EmptyBuffer ==
  (pc = "decode" /\ buff = <<>>) => isFailure(result)

====
